---- MODULE Spec2Model ----
(***************************************************************************)
(* Model of the OSD tile-index grid of hd_fpv_video_tool                   *)
(* (src/osd/dji/file/tile_indices.rs) and of the display-OSD-file-info     *)
(* command (src/main.rs).                                                  *)
(*                                                                         *)
(* A grid is the inner Vec<u16> of TileIndices.  A recording's grid is     *)
(* 1320 cells of which a handful are non-zero, so the Vec is kept as its   *)
(* length and its content on the cells that were populated when it was     *)
(* built: [len |-> n, cells |-> f], where f maps the linear indices        *)
(* (0-based, as in the code) of those cells to their tile index.  Every    *)
(* other cell of 0..n-1 holds 0; Cell(t, i) reads the Vec at i.            *)
(***************************************************************************)
EXTENDS Integers, Sequences, FiniteSets, TLC

VARIABLES
    tiles,      \* TileIndices.0 : the grid the operations act on
    before,     \* the grid as it was when the last operation was called
    op,         \* the last operation called and its arguments
    result,     \* what the last operation returned
    iter,       \* position of the live TileIndicesEnumeratorIter, -1 when none
    yielded,    \* the pairs the current / last enumerate() has yielded so far
    lastEnum,   \* what the enumerate() completed just before this one yielded
    again,      \* 0, or 1 + (whether the first call cleared a cell) when the
                \* last erase_region repeats the call made just before it
    original,   \* the grid as it was constructed, where a specification follows
                \* a grid from its construction on; None elsewhere
    conv,       \* a coordinates <-> linear index conversion and its input
    recording,  \* the OSD file the info command is given
    pc,         \* where the info command stands: "start" or "done"
    loaded,     \* the header and frames the info command holds
    lines,      \* what the info command has printed
    status      \* what the info command returned

gridVars == <<tiles, before, op, result, iter, yielded, lastEnum, again, original>>

infoVars == <<recording, pc, loaded, lines, status>>

vars == <<gridVars, conv, infoVars>>

notGrid == <<conv, infoVars>>

----------------------------------------------------------------------------
(* Geometry: TILE_INDICES_DIMENSIONS_TILES = Kind::FakeHD.dimensions_tiles() *)

Width == 60

Height == 22

GridLen == Width * Height

----------------------------------------------------------------------------
(* Bounds of the model *)

\* tile indices of the initial grids are drawn from 0..MaxTile
MaxTile == 3

\* an initial grid has at most this many non-zero cells
MaxNonZero == 3

\* regions passed to erase_region are at most this wide and high
MaxRegionDim == 2

\* erase_regions is called with at most this many regions
MaxRegions == 2

\* erase_osd_items is called with at most this many names
MaxNames == 2

\* TileIndices::new is called with vectors of 1320 +- this many cells
MaxLenDeviation == 1

\* coordinates up to Width - 1 + CoordSlack, Height - 1 + CoordSlack and linear
\* indices up to GridLen - 1 + CoordSlack are converted
CoordSlack == 1

\* a recording holds at most this many frames
MaxFrames == 3

\* video-frame indices of a recording are drawn from 0..MaxFrameIndex
MaxFrameIndex == 5

----------------------------------------------------------------------------
(* Values *)

None == [none |-> TRUE]

Unit == [unit |-> TRUE]

Ok == [ok |-> TRUE]

\* UnknownOSDItem(String)
UnknownOSDItem(name) == [ok |-> FALSE, error |-> "UnknownOSDItem", name |-> name]

\* osd::Coordinates::new(x, y)
Coordinates(x, y) == [x |-> x, y |-> y]

\* osd::Region: a top-left corner and dimensions in tiles
Region(x, y, w, h) == [top_left |-> Coordinates(x, y), width |-> w, height |-> h]

\* Region::to_coordinates_range: the inclusive range of the region's corners
to_coordinates_range(region) ==
    [first |-> region.top_left,
     last  |-> Coordinates(region.top_left.x + region.width - 1,
                           region.top_left.y + region.height - 1)]

\* CoordinatesRange::contains: membership in the inclusive rectangle
contains(range, c) ==
    /\ range.first.x <= c.x /\ c.x <= range.last.x
    /\ range.first.y <= c.y /\ c.y <= range.last.y

\* the Vec read at linear index i, for 0 <= i < t.len
Cell(t, i) == IF i \in DOMAIN t.cells THEN t.cells[i] ELSE 0

----------------------------------------------------------------------------
(* TileIndices *)

new(inner) == inner

\* as screen_coordinates_to_index, row-major
screen_coordinates_to_index_row_major(x, y) == x + y * Width

screen_coordinates_to_index(x, y) == y + x * Height

\* as index_to_screen_coordinates, with quotient and remainder exchanged
index_to_screen_coordinates_swapped(index) ==
    Coordinates(index % Height, index \div Height)

index_to_screen_coordinates(index) ==
    Coordinates(index \div Height, index % Height)

SetMin(S) == CHOOSE i \in S : \A j \in S : i <= j

\* as TileIndicesEnumeratorIter_next, without the test tile_index > 0
TileIndicesEnumeratorIter_next_noskip(t, pos) ==
    LET rest == {i \in DOMAIN t.cells : i >= pos /\ i < t.len}
    IN  IF rest = {}
        THEN [item |-> None, pos |-> t.len]
        ELSE LET tile_index_index == SetMin(rest)
             IN  [item |-> [coordinates |-> index_to_screen_coordinates(tile_index_index),
                            tile_index  |-> t.cells[tile_index_index]],
                  pos  |-> tile_index_index + 1]

\* TileIndicesEnumeratorIter::next on the iterator standing at position pos:
\* runs the inner Enumerate forward to the first cell with tile_index > 0
TileIndicesEnumeratorIter_next(t, pos) ==
    LET rest == {i \in DOMAIN t.cells : i >= pos /\ i < t.len /\ t.cells[i] > 0}
    IN  IF rest = {}
        THEN [item |-> None, pos |-> t.len]
        ELSE LET tile_index_index == SetMin(rest)
             IN  [item |-> [coordinates |-> index_to_screen_coordinates(tile_index_index),
                            tile_index  |-> t.cells[tile_index_index]],
                  pos  |-> tile_index_index + 1]

\* what an iterator standing at pos yields until it returns None
RECURSIVE Drain(_, _)
Drain(t, pos) ==
    LET n == TileIndicesEnumeratorIter_next(t, pos)
    IN  IF n.item = None THEN <<>> ELSE <<n.item>> \o Drain(t, n.pos)

\* self.enumerate() consumed to its end, as erase_osd_item does
enumerate(t) == Drain(t, 0)

\* as erase_region, with the cells numbered after the zero cells are skipped
\* (filter before enumerate) instead of by their linear index
erase_region_renumbered(t, region) ==
    LET coordinates_range == to_coordinates_range(region)
        rank(i) == Cardinality({j \in DOMAIN t.cells : j < i /\ t.cells[j] > 0})
    IN  [t EXCEPT !.cells =
            [i \in DOMAIN t.cells |->
                IF /\ t.cells[i] > 0
                   /\ contains(coordinates_range, index_to_screen_coordinates(rank(i)))
                THEN 0
                ELSE t.cells[i]]]

\* as erase_region, writing the blank glyph's tile index instead of 0
erase_region_blank(t, region) ==
    LET coordinates_range == to_coordinates_range(region)
    IN  [t EXCEPT !.cells =
            [i \in DOMAIN t.cells |->
                IF /\ t.cells[i] > 0
                   /\ contains(coordinates_range, index_to_screen_coordinates(i))
                THEN 32
                ELSE t.cells[i]]]

\* TileIndicesEnumeratorIterMut::next yields only the cells with tile_index > 0,
\* with the coordinates of their linear index; erase_region clears those of
\* them that the region's coordinates range contains
erase_region(t, region) ==
    LET coordinates_range == to_coordinates_range(region)
    IN  [t EXCEPT !.cells =
            [i \in DOMAIN t.cells |->
                IF /\ t.cells[i] > 0
                   /\ contains(coordinates_range, index_to_screen_coordinates(i))
                THEN 0
                ELSE t.cells[i]]]

\* as erase_regions, with the loop starting at the second region
erase_regions_skip_first(t, regions) ==
    LET RECURSIVE from(_, _)
        from(u, rs) == IF rs = <<>> THEN u ELSE from(erase_region(u, Head(rs)), Tail(rs))
    IN  IF regions = <<>> THEN t ELSE from(t, Tail(regions))

RECURSIVE erase_regions(_, _)
erase_regions(t, regions) ==
    IF regions = <<>>
    THEN t
    ELSE erase_regions(erase_region(t, Head(regions)), Tail(regions))

----------------------------------------------------------------------------
(* The font variant's layout: item name -> OSD item location data *)

FontVariants == {"INAV", "Generic"}

\* OSD item location data: the marker tile indices of the item and the
\* rectangle an instance occupies, relative to the marker's coordinates
OSDItemLocData(markers, dx, dy, w, h) ==
    [marker_tile_indices |-> markers, dx |-> dx, dy |-> dy, width |-> w, height |-> h]

\* FontVariant::find_osd_item_location_data
find_osd_item_location_data(font_variant, item_name) ==
    IF font_variant = "INAV" /\ item_name = "alt"
    THEN OSDItemLocData(<<1>>, 0, 0, 2, 1)
    ELSE IF font_variant = "INAV" /\ item_name = "lat"
    THEN OSDItemLocData(<<2, 3>>, -1, 0, 2, 1)
    ELSE None

\* OSDItemLocData::region: the region of the instance whose marker is at c
oild_region(oild, c) == Region(c.x + oild.dx, c.y + oild.dy, oild.width, oild.height)

\* enumerate().filter_map(..).collect() of erase_osd_item, for one marker
RECURSIVE marker_regions(_, _, _)
marker_regions(oild, marker_tile_index, pairs) ==
    IF pairs = <<>>
    THEN <<>>
    ELSE (IF Head(pairs).tile_index = marker_tile_index
          THEN <<oild_region(oild, Head(pairs).coordinates)>>
          ELSE <<>>)
         \o marker_regions(oild, marker_tile_index, Tail(pairs))

\* as collect_regions, matching the first marker tile index only
collect_regions_first_marker(t, oild, markers) ==
    IF markers = <<>>
    THEN <<>>
    ELSE marker_regions(oild, Head(markers), enumerate(t))

\* marker_tile_indices().iter().flat_map(..).collect()
RECURSIVE collect_regions(_, _, _)
collect_regions(t, oild, markers) ==
    IF markers = <<>>
    THEN <<>>
    ELSE marker_regions(oild, Head(markers), enumerate(t))
         \o collect_regions(t, oild, Tail(markers))

\* as erase_osd_item, with an unknown item name skipped instead of reported
erase_osd_item_skip_unknown(t, font_variant, item_name) ==
    LET oild == find_osd_item_location_data(font_variant, item_name)
    IN  IF oild = None
        THEN [tiles |-> t, result |-> Ok]
        ELSE LET regions == collect_regions(t, oild, oild.marker_tile_indices)
             IN  [tiles |-> erase_regions(t, regions), result |-> Ok]

\* the grid and the Result after self.erase_osd_item(font_variant, item_name)
erase_osd_item(t, font_variant, item_name) ==
    LET oild == find_osd_item_location_data(font_variant, item_name)
    IN  IF oild = None
        THEN [tiles |-> t, result |-> UnknownOSDItem(item_name)]
        ELSE LET regions == collect_regions(t, oild, oild.marker_tile_indices)
             IN  [tiles |-> erase_regions(t, regions), result |-> Ok]

\* as erase_osd_items, erasing every known name and reporting the first
\* unknown one at the end
RECURSIVE erase_osd_items_keep_going(_, _, _)
erase_osd_items_keep_going(t, font_variant, item_names) ==
    IF item_names = <<>>
    THEN [tiles |-> t, result |-> Ok]
    ELSE LET r == erase_osd_item(t, font_variant, Head(item_names))
             rest == erase_osd_items_keep_going(r.tiles, font_variant, Tail(item_names))
         IN  IF r.result.ok THEN rest ELSE [tiles |-> rest.tiles, result |-> r.result]

\* the grid and the Result after self.erase_osd_items(font_variant, item_names)
RECURSIVE erase_osd_items(_, _, _)
erase_osd_items(t, font_variant, item_names) ==
    IF item_names = <<>>
    THEN [tiles |-> t, result |-> Ok]
    ELSE LET r == erase_osd_item(t, font_variant, Head(item_names))
         IN  IF r.result.ok
             THEN erase_osd_items(r.tiles, font_variant, Tail(item_names))
             ELSE r

\* impl Index<(Coordinate, Coordinate)>: Vec indexing panics past the end
index(t, x, y) ==
    LET i == screen_coordinates_to_index(x, y)
    IN  IF i < t.len THEN [value |-> Cell(t, i)] ELSE [panic |-> "index out of bounds"]

----------------------------------------------------------------------------
(* Inputs *)

\* the cells a recording's grid may hold a tile in: the linear indices of
\* (0, 0), (1, 0), (2, 0) and (Width - 1, Height - 1)
PopulatedCells == {0, Height, 2 * Height, GridLen - 1}

\* the vectors of n cells with at most k non-zero cells, all in PopulatedCells
\* (and the cell past the grid, when there is one): the cells of row 0 hold any
\* tile index of 0..MaxTile, the last cells hold 0 or MaxTile
Vectors(n, k) ==
    LET S == {i \in PopulatedCells \cup {GridLen} : i < n}
    IN  {[len |-> n, cells |-> g] :
            g \in {f \in [S -> 0..MaxTile] :
                     /\ Cardinality({i \in S : f[i] # 0}) <= k
                     /\ \A i \in S : i >= GridLen - 1 => f[i] \in {0, MaxTile}}}

InitialGrids == Vectors(GridLen, MaxNonZero)

RegionCorners == {<<0, 0>>, <<1, 0>>, <<Width - 1, Height - 1>>}

Regions ==
    {Region(c[1], c[2], w, h) : c \in RegionCorners, w \in 1..MaxRegionDim, h \in 1..MaxRegionDim}

ListRegions == {Region(0, 0, 2, 1), Region(1, 0, 2, 1), Region(Width - 1, Height - 1, 1, 1)}

SeqsUpTo(S, n) == UNION {[1..k -> S] : k \in 0..n}

ItemNames == {"alt", "lat", "nope"}

IndexXs == {0, 1, Width - 1, Width}

IndexYs == {0, Height - 1, Height}

Idle == [given |-> "none", have |-> "none", steps |-> 0]

\* no enumerate() of the grid as it is now has completed yet
NoEnum == [known |-> FALSE]

----------------------------------------------------------------------------
(* The grid and the operations called on it *)

GridConstructed(inner) ==
    /\ tiles = new(inner)
    /\ before = tiles
    /\ op = [name |-> "new"]
    /\ result = Unit
    /\ iter = -1
    /\ yielded = <<>>
    /\ lastEnum = NoEnum
    /\ again = 0

NoCommand ==
    /\ recording = None
    /\ pc = "idle"
    /\ loaded = None
    /\ lines = <<>>
    /\ status = None

Constructed(inner) ==
    /\ GridConstructed(inner)
    /\ original = None
    /\ conv = Idle
    /\ NoCommand

\* a grid as the recording's reader builds it: 1320 cells
Init == \E inner \in InitialGrids : Constructed(inner)

\* TileIndices::new called directly, with a vector of any length
InitNew ==
    \E n \in (GridLen - MaxLenDeviation)..(GridLen + MaxLenDeviation) :
        \E inner \in Vectors(n, 1) : Constructed(inner)

Mutated == /\ iter' = -1 /\ yielded' = <<>> /\ lastEnum' = NoEnum

EraseRegion(region) ==
    /\ iter = -1
    /\ before' = tiles
    /\ tiles' = erase_region(tiles, region)
    /\ op' = [name |-> "erase_region", region |-> region]
    /\ result' = Unit
    /\ again' = IF op.name = "erase_region" /\ op.region = region
                THEN (IF tiles # before THEN 2 ELSE 1)
                ELSE 0
    /\ Mutated
    /\ UNCHANGED <<original, notGrid>>

EraseRegions(regions) ==
    /\ iter = -1
    /\ before' = tiles
    /\ tiles' = erase_regions(tiles, regions)
    /\ op' = [name |-> "erase_regions", regions |-> regions]
    /\ result' = Unit
    /\ again' = 0
    /\ Mutated
    /\ UNCHANGED <<original, notGrid>>

EraseOsdItem(font_variant, item_name) ==
    /\ iter = -1
    /\ before' = tiles
    /\ LET r == erase_osd_item(tiles, font_variant, item_name)
       IN  /\ tiles' = r.tiles
           /\ result' = r.result
    /\ op' = [name |-> "erase_osd_item", font_variant |-> font_variant,
              item_name |-> item_name]
    /\ again' = 0
    /\ Mutated
    /\ UNCHANGED <<original, notGrid>>

EraseOsdItems(font_variant, item_names) ==
    /\ iter = -1
    /\ before' = tiles
    /\ LET r == erase_osd_items(tiles, font_variant, item_names)
       IN  /\ tiles' = r.tiles
           /\ result' = r.result
    /\ op' = [name |-> "erase_osd_items", font_variant |-> font_variant,
              item_names |-> item_names]
    /\ again' = 0
    /\ Mutated
    /\ UNCHANGED <<original, notGrid>>

\* let it = self.enumerate()
Enumerate ==
    /\ iter = -1
    /\ iter' = 0
    /\ lastEnum' = IF op.name = "enumerate" THEN [known |-> TRUE, pairs |-> yielded] ELSE NoEnum
    /\ yielded' = <<>>
    /\ before' = tiles
    /\ op' = [name |-> "enumerate"]
    /\ result' = Unit
    /\ again' = 0
    /\ UNCHANGED <<tiles, original, notGrid>>

\* it.next()
EnumerateNext ==
    /\ iter >= 0
    /\ LET n == TileIndicesEnumeratorIter_next(tiles, iter)
       IN  /\ result' = n.item
           /\ IF n.item = None
              THEN /\ iter' = -1
                   /\ yielded' = yielded
              ELSE /\ iter' = n.pos
                   /\ yielded' = Append(yielded, n.item)
    /\ UNCHANGED <<tiles, before, op, lastEnum, again, original, notGrid>>

\* self[(x, y)]
Index(x, y) ==
    /\ iter = -1
    /\ before' = tiles
    /\ op' = [name |-> "index", x |-> x, y |-> y]
    /\ result' = index(tiles, x, y)
    /\ again' = 0
    /\ UNCHANGED <<tiles, iter, yielded, lastEnum, original, notGrid>>

NextRegions ==
    \/ \E region \in Regions : EraseRegion(region)
    \/ \E regions \in SeqsUpTo(ListRegions, MaxRegions) : EraseRegions(regions)

NextItems ==
    \/ \E fv \in FontVariants, name \in ItemNames : EraseOsdItem(fv, name)
    \/ \E names \in SeqsUpTo(ItemNames, MaxNames) : EraseOsdItems("INAV", names)

NextRead ==
    \/ Enumerate
    \/ EnumerateNext
    \/ \E x \in IndexXs, y \in IndexYs : Index(x, y)

Next == NextRegions \/ NextItems \/ NextRead

\* a recording's grid, followed from its construction on
InitErase ==
    \E inner \in InitialGrids :
        /\ GridConstructed(inner)
        /\ original = tiles
        /\ conv = Idle
        /\ NoCommand

\* the lists <<a, b>> of two different elements of S
PairsOf(S) == {p \in S \X S : p[1] # p[2]}

NextErase ==
    \/ \E region \in ListRegions : EraseRegion(region)
    \/ \E regions \in PairsOf(ListRegions) : EraseRegions(regions)
    \/ \E name \in ItemNames : EraseOsdItem("INAV", name)
    \/ \E names \in PairsOf(ItemNames) : EraseOsdItems("INAV", names)

\* erase_region and erase_regions called on a recording's grid
SpecRegions == Init /\ [][NextRegions]_vars

\* erase_osd_item and erase_osd_items called on a recording's grid
SpecItems == Init /\ [][NextItems]_vars

\* a recording's grid enumerated and indexed
SpecRead == Init /\ [][NextRead]_vars

\* any sequence of the four erase operations on a recording's grid
SpecErase == InitErase /\ [][NextErase]_vars

\* every operation, on grids built by TileIndices::new from any vector
SpecNew == InitNew /\ [][Next]_vars

----------------------------------------------------------------------------
(* Coordinates <-> linear index conversions *)

GivenCoordinates(x, y) ==
    [given |-> "coordinates", input |-> Coordinates(x, y), have |-> "coordinates",
     coordinates |-> Coordinates(x, y), index |-> -1, steps |-> 0]

GivenIndex(i) ==
    [given |-> "index", input |-> i, have |-> "index",
     coordinates |-> Coordinates(-1, -1), index |-> i, steps |-> 0]

InitCoordinates ==
    /\ GridConstructed([len |-> GridLen, cells |-> [i \in PopulatedCells |-> 0]])
    /\ original = None
    /\ NoCommand
    /\ \/ \E x \in 0..(Width - 1 + CoordSlack), y \in 0..(Height - 1 + CoordSlack) :
            conv = GivenCoordinates(x, y)
       \/ \E i \in 0..(GridLen - 1 + CoordSlack) : conv = GivenIndex(i)

\* index = TileIndices::screen_coordinates_to_index(x, y)
ScreenCoordinatesToIndex ==
    /\ conv.have = "coordinates"
    /\ conv.steps < 2
    /\ conv' = [conv EXCEPT
                  !.index = screen_coordinates_to_index(conv.coordinates.x, conv.coordinates.y),
                  !.have = "index",
                  !.steps = @ + 1]
    /\ UNCHANGED <<gridVars, infoVars>>

\* coordinates = TileIndices::index_to_screen_coordinates(index)
IndexToScreenCoordinates ==
    /\ conv.have = "index"
    /\ conv.steps < 2
    /\ conv' = [conv EXCEPT
                  !.coordinates = index_to_screen_coordinates(conv.index),
                  !.have = "coordinates",
                  !.steps = @ + 1]
    /\ UNCHANGED <<gridVars, infoVars>>

NextCoordinates == ScreenCoordinatesToIndex \/ IndexToScreenCoordinates

\* coordinates converted to a linear index and back, and the converse
SpecCoordinates == InitCoordinates /\ [][NextCoordinates]_vars

----------------------------------------------------------------------------
(* display_osd_file_info_command *)

\* u32::MAX, where `as u32` saturates
U32Max == [max |-> "u32"]

U32(n) == [value |-> n]

\* an f64 that is the ratio of two non-negative integers, an infinity or a NaN
Finite(n, d) == [kind |-> "finite", num |-> n, den |-> d]

Infinite == [kind |-> "inf"]

NaN == [kind |-> "nan"]

\* n as f64 / d as f64, for non-negative integers n and d: IEEE 754 division
\* never traps; x / 0.0 is +inf for x > 0 and NaN for x = 0
F64DivInt(n, d) ==
    IF d # 0 THEN Finite(n, d) ELSE IF n = 0 THEN NaN ELSE Infinite

\* n as f64 / v, for a non-negative integer n and a non-negative f64 v
F64DivBy(n, v) ==
    IF v.kind = "nan" THEN NaN
    ELSE IF v.kind = "inf" THEN Finite(0, 1)
    ELSE F64DivInt(n * v.den, v.num)

\* v.round() as u32, for a non-negative f64 v: round half away from zero, then
\* a saturating cast (NaN to 0)
\* (a finite v of the model is far below u32::MAX)
RoundAsU32(v) ==
    IF v.kind = "nan" THEN U32(0)
    ELSE IF v.kind = "inf" THEN U32Max
    ELSE U32((2 * v.num + v.den) \div (2 * v.den))

OpenError == [ok |-> FALSE, error |-> "OSDFileOpenError"]

LoadError == [ok |-> FALSE, error |-> "LoadError"]

\* what the command prints after the header, for the frames it loaded
update_rate_lines(frames) ==
    IF frames = <<>>
    THEN <<>>
    ELSE LET last_frame == frames[Len(frames)]
             refresh_percent_frames == F64DivInt(Len(frames) * 100, last_frame.index)
             refresh_interval_frames == F64DivInt(last_frame.index, Len(frames))
             rounded == RoundAsU32(refresh_interval_frames)
             refresh_interval_frames_str ==
                 IF rounded = U32(1) THEN [every |-> "frame"] ELSE [every |-> rounded]
             refresh_freq == F64DivBy(60, refresh_interval_frames)
         IN  << [line |-> "Highest video frame index", value |-> last_frame.index],
                [line |-> "OSD update rate", percent |-> refresh_percent_frames,
                 freq |-> refresh_freq, interval |-> refresh_interval_frames_str] >>

\* as display_osd_file_info_command, with the update rate computed in integer
\* arithmetic: the division by the last frame's index panics when it is 0
display_osd_file_info_command_integer_division(file) ==
    IF ~file.opens
    THEN [status |-> OpenError, loaded |-> None, lines |-> <<>>]
    ELSE IF ~file.loads
    THEN [status |-> LoadError, loaded |-> None, lines |-> <<>>]
    ELSE LET head == << [line |-> "header", value |-> file.header],
                        [line |-> "Number of OSD frames", value |-> Len(file.frames)] >>
         IN  IF file.frames # <<>> /\ file.frames[Len(file.frames)].index = 0
             THEN [status |-> [panic |-> "attempt to divide by zero"],
                   loaded |-> [header |-> file.header, frames |-> file.frames],
                   lines |-> head]
             ELSE [status |-> Ok,
                   loaded |-> [header |-> file.header, frames |-> file.frames],
                   lines |-> head \o update_rate_lines(file.frames)]

\* the Result, the header and frames held, and the lines printed when the
\* command is run on file
display_osd_file_info_command(file) ==
    IF ~file.opens
    THEN [status |-> OpenError, loaded |-> None, lines |-> <<>>]
    ELSE IF ~file.loads
    THEN [status |-> LoadError, loaded |-> None, lines |-> <<>>]
    ELSE [status |-> Ok,
          loaded |-> [header |-> file.header, frames |-> file.frames],
          lines |-> << [line |-> "header", value |-> file.header],
                       [line |-> "Number of OSD frames", value |-> Len(file.frames)] >>
                    \o update_rate_lines(file.frames)]

\* the frame sequences of a recording: video-frame indices strictly increasing
FrameSequences ==
    {fs \in SeqsUpTo([index : 0..MaxFrameIndex], MaxFrames) :
        \A k \in 1..(Len(fs) - 1) : fs[k].index < fs[k + 1].index}

Header == [format_version |-> 1, osd_dimensions |-> <<Width, Height>>, font_variant_id |-> 3]

Recordings ==
    {[opens |-> o, loads |-> l, header |-> Header, frames |-> fs] :
        o \in BOOLEAN, l \in BOOLEAN, fs \in FrameSequences}

InitInfo ==
    /\ GridConstructed([len |-> GridLen, cells |-> [i \in PopulatedCells |-> 0]])
    /\ original = None
    /\ conv = Idle
    /\ recording \in Recordings
    /\ pc = "start"
    /\ loaded = None
    /\ lines = <<>>
    /\ status = None

DisplayOsdFileInfo ==
    /\ pc = "start"
    /\ LET r == display_osd_file_info_command(recording)
       IN  /\ status' = r.status
           /\ loaded' = r.loaded
           /\ lines' = r.lines
    /\ pc' = "done"
    /\ UNCHANGED <<recording, gridVars, conv>>

NextInfo == DisplayOsdFileInfo

\* the display-OSD-file-info command run on a recording
SpecInfo == InitInfo /\ [][NextInfo]_vars

----------------------------------------------------------------------------
(* Properties *)

\* the cells of grid t, by linear index
Cells(t) == 0..(t.len - 1)

\* grids a and b are equal, cell for cell
SameGrid(a, b) == a.len = b.len /\ \A i \in Cells(a) : Cell(a, i) = Cell(b, i)

\* the cell at column x, row y lies inside the inclusive rectangle of region
Inside(region, x, y) ==
    /\ region.top_left.x <= x /\ x < region.top_left.x + region.width
    /\ region.top_left.y <= y /\ y < region.top_left.y + region.height

\* the cell with linear index i (column-major: i = y + x * Height) lies inside region
CellInside(region, i) == Inside(region, i \div Height, i % Height)

Unknown(font_variant, item_name) ==
    find_osd_item_location_data(font_variant, item_name) = None

\* C1: erase_osd_item with an item name the font variant's layout does not
\* know returns the UnknownOSDItem error carrying exactly that name, and the
\* grid after the call equals the grid before it, cell for cell.
C1_UnknownItemFailsGridUnchanged ==
    (op.name = "erase_osd_item" /\ Unknown(op.font_variant, op.item_name))
        => /\ ~result.ok
           /\ result.error = "UnknownOSDItem"
           /\ result.name = op.item_name
           /\ SameGrid(tiles, before)

\* an unknown name was erased from a grid that holds marker tiles
C1_Witness ==
    /\ op.name = "erase_osd_item"
    /\ op.font_variant = "INAV"
    /\ op.item_name = "nope"
    /\ ~result.ok
    /\ Cell(tiles, 0) = 1
    /\ Cell(tiles, Height) = 2

\* the position of the first unknown name of names, 0 when every name is known
FirstUnknown(font_variant, names) ==
    LET U == {k \in 1..Len(names) : Unknown(font_variant, names[k])}
    IN  IF U = {} THEN 0 ELSE SetMin(U)

\* the grid after erase_osd_item is applied for names[1], .., names[n] in turn
RECURSIVE ErasedInTurn(_, _, _, _)
ErasedInTurn(t, font_variant, names, n) ==
    IF n = 0
    THEN t
    ELSE erase_osd_item(ErasedInTurn(t, font_variant, names, n - 1),
                        font_variant, names[n]).tiles

\* C2: erase_osd_items is fail-fast without rollback: when the first unknown
\* name is at position k, the call returns the unknown-item error for that
\* name and the grid is the original grid with erase_osd_item applied for the
\* names before k, in order; the names after k have no effect.
C2_FailFastNoRollback ==
    (op.name = "erase_osd_items" /\ FirstUnknown(op.font_variant, op.item_names) > 0)
        => LET k == FirstUnknown(op.font_variant, op.item_names)
           IN  /\ ~result.ok
               /\ result.error = "UnknownOSDItem"
               /\ result.name = op.item_names[k]
               /\ SameGrid(tiles, ErasedInTurn(before, op.font_variant, op.item_names, k - 1))

\* a known name was erased, clearing cells, before the unknown name stopped the call
C2_Witness ==
    /\ op.name = "erase_osd_items"
    /\ op.font_variant = "INAV"
    /\ op.item_names = <<"alt", "nope">>
    /\ ~result.ok
    /\ Cell(before, 0) = 1
    /\ Cell(tiles, 0) = 0

\* C3: after erase_region(region) every cell whose coordinates lie inside the
\* inclusive rectangle of the region holds tile index 0.
C3_RegionCleared ==
    op.name = "erase_region"
        => \A x \in 0..(Width - 1), y \in 0..(Height - 1) :
              (Inside(op.region, x, y) /\ y + x * Height < tiles.len)
                  => Cell(tiles, y + x * Height) = 0

\* erase_region cleared the tile at (1, 0) and left the tile at (0, 0)
C3_Witness ==
    /\ op.name = "erase_region"
    /\ op.region = Region(1, 0, 2, 1)
    /\ Cell(before, Height) > 0
    /\ Cell(tiles, Height) = 0
    /\ Cell(tiles, 0) > 0

\* C4: erase_region is idempotent: a second erase_region with the same region,
\* called right after the first, leaves the grid as the first call left it.
C4_EraseRegionIdempotent ==
    again > 0 => SameGrid(tiles, before)

\* the same region was erased twice in a row, and the first call cleared a cell
C4_Witness ==
    /\ op.name = "erase_region"
    /\ again = 2
    /\ \E i \in Cells(tiles) : Cell(tiles, i) > 0

\* the linear index (y + x * Height) of the cell a yielded pair names
PairIndex(pair) == pair.coordinates.y + pair.coordinates.x * Height

\* C6: enumerate() yields exactly one (coordinates, tile_index) pair for each
\* non-zero cell, in ascending linear-index order, with the column-major
\* coordinates of the cell, and none for a zero cell (so none at all on an
\* all-zero grid); enumerating the unchanged grid again yields the same pairs.
C6_EnumerateNonZeroCells ==
    (op.name = "enumerate" /\ iter = -1)
        => /\ \A k \in 1..Len(yielded) :
                /\ yielded[k].coordinates.y \in 0..(Height - 1)
                /\ yielded[k].coordinates.x >= 0
                /\ PairIndex(yielded[k]) \in Cells(tiles)
                /\ yielded[k].tile_index = Cell(tiles, PairIndex(yielded[k]))
                /\ yielded[k].tile_index # 0
           /\ \A k \in 1..(Len(yielded) - 1) :
                PairIndex(yielded[k]) < PairIndex(yielded[k + 1])
           /\ \A i \in Cells(tiles) :
                Cell(tiles, i) # 0 => \E k \in 1..Len(yielded) : PairIndex(yielded[k]) = i
           /\ (lastEnum.known => yielded = lastEnum.pairs)

\* a grid with a zero cell between two tiles was enumerated to the end, twice
C6_Witness ==
    /\ op.name = "enumerate"
    /\ iter = -1
    /\ lastEnum.known
    /\ Len(yielded) = 2
    /\ Cell(tiles, 0) > 0
    /\ Cell(tiles, Height) = 0
    /\ Cell(tiles, 2 * Height) > 0

\* C7: for a known item name, erase_osd_item clears the region of every cell
\* of the grid before the call whose tile index is any one of the item's
\* marker tile indices, also of a marker lying inside another instance's
\* region: the regions are collected from the grid before any cell is erased.
C7_AllMarkerRegionsCleared ==
    (op.name = "erase_osd_item" /\ ~Unknown(op.font_variant, op.item_name))
        => LET oild == find_osd_item_location_data(op.font_variant, op.item_name)
               markers == {oild.marker_tile_indices[k] :
                              k \in 1..Len(oild.marker_tile_indices)}
           IN  \A i \in Cells(before) :
                  Cell(before, i) \in markers
                      => LET region == oild_region(oild, Coordinates(i \div Height, i % Height))
                         IN  \A j \in Cells(tiles) : CellInside(region, j) => Cell(tiles, j) = 0

\* two instances of "alt" side by side: the marker at (1, 0) lies inside the
\* region of the instance at (0, 0), and its own region reaches the tile at (2, 0)
C7_Witness ==
    /\ op.name = "erase_osd_item"
    /\ op.font_variant = "INAV"
    /\ op.item_name = "alt"
    /\ Cell(before, 0) = 1
    /\ Cell(before, Height) = 1
    /\ Cell(before, 2 * Height) > 1
    /\ Cell(tiles, 2 * Height) = 0

\* C8: the grid length is always exactly Width * Height: TileIndices::new
\* rejects every other length, and the erase operations keep the length.
C8_LengthIsAlwaysGridLen ==
    /\ tiles.len = GridLen
    /\ op.name \in {"erase_region", "erase_regions", "erase_osd_item", "erase_osd_items"}
          => tiles.len = before.len

\* C9: indexing by (x, y) with x >= Width or y >= Height is a contract
\* violation and never answers with the tile of another cell; for in-range
\* (x, y) it returns the tile index at linear position y + x * Height.
C9_IndexValidatesCoordinates ==
    op.name = "index"
        => IF op.x < Width /\ op.y < Height
           THEN result = [value |-> Cell(tiles, op.y + op.x * Height)]
           ELSE "panic" \in DOMAIN result

\* C5: for 0 <= x < Width and 0 <= y < Height, converting (x, y) to its linear
\* index and back returns (x, y), the index being y + x * Height (column-major)
\* and lying in 0..GridLen-1; conversely every linear index of 0..GridLen-1
\* converted to coordinates and back is returned unchanged.
C5_CoordinatesIndexRoundTrip ==
    /\ (conv.given = "coordinates" /\ conv.steps >= 1
            /\ conv.input.x < Width /\ conv.input.y < Height)
          => /\ conv.index = conv.input.y + conv.input.x * Height
             /\ conv.index \in 0..(GridLen - 1)
             /\ conv.steps = 2 => conv.coordinates = conv.input
    /\ (conv.given = "index" /\ conv.steps = 2 /\ conv.input < GridLen)
          => conv.index = conv.input

\* (Width - 1, Height - 1) went to the last linear index and came back
C5_Witness ==
    /\ conv.given = "coordinates"
    /\ conv.steps = 2
    /\ conv.input = Coordinates(Width - 1, Height - 1)
    /\ conv.index = GridLen - 1
    /\ conv.coordinates = conv.input

\* C10: for every recording that opens and loads, also one with no frame and
\* one whose last frame has video-frame index 0, the display-OSD-file-info
\* command returns success, and the header and frames it holds are those of
\* the recording, unmodified.
C10_InfoCommandSucceeds ==
    (pc = "done" /\ recording.opens /\ recording.loads)
        => /\ status = Ok
           /\ loaded.header = recording.header
           /\ loaded.frames = recording.frames
           /\ Len(lines) = IF recording.frames = <<>> THEN 2 ELSE 4

\* the command printed an update rate for a single frame with video-frame index 0
C10_Witness ==
    /\ pc = "done"
    /\ recording.frames = <<[index |-> 0]>>
    /\ status = Ok
    /\ lines[4].percent = Infinite
    /\ lines[4].freq = Infinite

\* C11: the grid after erase_regions depends only on the set of regions: it is
\* the grid before the call with exactly the cells covered by at least one
\* region set to 0, so every permutation of the list and every repetition of
\* a region in it gives the same grid, overlapping regions included.
C11_EraseRegionsDependsOnSetOnly ==
    op.name = "erase_regions"
        => LET covered(i) == \E k \in 1..Len(op.regions) : CellInside(op.regions[k], i)
               regionSet(rs) == {rs[k] : k \in 1..Len(rs)}
           IN  /\ tiles.len = before.len
               /\ \A i \in Cells(before) :
                     Cell(tiles, i) = IF covered(i) THEN 0 ELSE Cell(before, i)
               /\ \A other \in SeqsUpTo(ListRegions, MaxRegions) :
                     regionSet(other) = regionSet(op.regions)
                         => erase_regions(before, other) = tiles

\* two overlapping regions cleared the tiles at (0, 0), (1, 0) and (2, 0)
C11_Witness ==
    /\ op.name = "erase_regions"
    /\ op.regions = <<Region(1, 0, 2, 1), Region(0, 0, 2, 1)>>
    /\ Cell(before, 0) > 0
    /\ Cell(before, Height) > 0
    /\ Cell(before, 2 * Height) > 0
    /\ \A i \in Cells(tiles) : Cell(tiles, i) = 0

\* C12: erasure only clears cells, and only inside the requested area: after
\* erase_region every cell outside the inclusive rectangle of the region keeps
\* the value it had before the call, and after any sequence of erase_region,
\* erase_regions, erase_osd_item and erase_osd_items calls every cell holds
\* its original value or 0.
C12_ErasureOnlyClears ==
    /\ tiles.len = original.len
    /\ \A i \in Cells(original) : Cell(tiles, i) \in {Cell(original, i), 0}
    /\ op.name = "erase_region"
          => \A i \in Cells(before) :
                ~CellInside(op.region, i) => Cell(tiles, i) = Cell(before, i)

\* after an earlier erasure, erase_region cleared the tile at (1, 0) and left
\* the tile at (0, 0), outside the region, as it was constructed
C12_Witness ==
    /\ op.name = "erase_region"
    /\ op.region = Region(1, 0, 2, 1)
    /\ before # original
    /\ Cell(before, Height) > 0
    /\ Cell(tiles, Height) = 0
    /\ Cell(tiles, 0) > 0
    /\ Cell(tiles, 0) = Cell(original, 0)

====
